---------------------------- MODULE Spec2Model ----------------------------
(***************************************************************************)
(* Sharded buffer cache of lab_lock/kernel/bio.c and per-CPU page          *)
(* allocator of lab_lock/kernel/kalloc.c.                                  *)
(*                                                                         *)
(* The cache is NBUF buffers, NBUCKET singly linked bucket lists           *)
(* (map.head[i].next), one spinlock per bucket (map.lock[i]), one global   *)
(* spinlock (bcache.lock) and one sleeplock per buffer (b->lock).          *)
(* Threads call bread (bget + device read), bwrite, brelse, bpin, bunpin.  *)
(* The allocator is one free list and one spinlock per CPU (kmem[c]);      *)
(* threads call kalloc and kfree.                                          *)
(* Every spinlock acquire is a step of its own, so that the states in      *)
(* which a thread spins on a lock are states of the model.                 *)
(***************************************************************************)
EXTENDS Integers, Sequences, FiniteSets, TLC

\* ------------------------------------------------------------ bounds ----
\* bio.c:26 has 13 buckets and param.h 30 buffers; the model is scaled down.
NBUCKET == 2
NBUF == 2
\* number of concurrent threads (CPUs)
NTHREAD == 2
\* largest device and block number a caller asks for
MaxDev == 1
MaxBlock == 2
\* most pins outstanding at one time
MaxPins == 2
\* the largest value of a uint: 0xffffffff in the source, scaled down
UintMax == 2

\* kalloc.c: param.h has NCPU 8; the pages of physical memory; and the
\* 16 * 1024 of kalloc.c:105, the longest walk down a free list, scaled down
NCPU == 3
NPAGE == 3
StealWalk == 1

Threads == 1..NTHREAD
Slots == 1..NBUF
Buckets == 0..(NBUCKET - 1)
Devs == 0..MaxDev
Blocks == 0..MaxBlock
Content == {0, 1}
Cpus == 0..(NCPU - 1)
Pages == 1..NPAGE
None == 0

\* bio.c:27
HASH(x) == x % NBUCKET

VARIABLES
  list,       \* list[i]: the buffers of bucket i in list order (map.head[i].next ...)
  dev,        \* b->dev
  blockno,    \* b->blockno
  valid,      \* b->valid
  refcnt,     \* b->refcnt
  timestamp,  \* b->timestamp
  data,       \* b->data
  dirty,      \* history: b->data was changed since it was last read or written
  sleeplock,  \* b->lock: the thread holding it, or None
  lock,       \* map.lock[i]: the thread holding it, or None
  bcachelock, \* bcache.lock: the thread holding it, or None
  ticks,      \* the global tick counter (trap.c), a uint
  disk,       \* the device: disk[d][bn] is the stored content of block bn
  pc,         \* position of each thread
  tdev,       \* bget: dev
  tblockno,   \* bget: blockno
  th,         \* bget/brelse/bpin/bunpin: h
  ti,         \* bget: i
  handle,     \* the buffer a thread has claimed in bget and not yet released
  arg,        \* the argument b of the running bwrite/brelse/bpin/bunpin call
  pins,       \* pins[b]: pins taken on b (bpin done) and not yet given to a bunpin call
  freelist,   \* kmem[c].freelist: the pages of the list of CPU c, head first
  kmemlock,   \* kmem[c].lock: the thread holding it, or None
  kpc,        \* position of each thread in kalloc or kfree
  hartid,     \* kalloc/kfree: hartid
  ki,         \* kalloc: i
  kr,         \* kalloc: r, a page or None (0)
  kpa,        \* kfree: pa
  owned       \* owned[t]: the pages kalloc returned to t and t has not freed

bufvars == <<list, dev, blockno, valid, refcnt, timestamp, data, dirty,
            sleeplock>>
lockvars == <<lock, bcachelock>>
thrvars == <<pc, tdev, tblockno, th, ti, handle, arg>>
kvars == <<freelist, kmemlock, kpc, hartid, ki, kr, kpa, owned>>
biovars == <<list, dev, blockno, valid, refcnt, timestamp, data, dirty,
             sleeplock, lock, bcachelock, ticks, disk, pc, tdev, tblockno, th,
             ti, handle, arg, pins>>
vars == <<list, dev, blockno, valid, refcnt, timestamp, data, dirty, sleeplock,
          lock, bcachelock, ticks, disk, pc, tdev, tblockno, th, ti, handle,
          arg, pins, freelist, kmemlock, kpc, hartid, ki, kr, kpa, owned>>

\* ------------------------------------------------------------ helpers ---
RECURSIVE SeqSum(_)
SeqSum(s) == IF s = <<>> THEN 0 ELSE Head(s) + SeqSum(Tail(s))

Remove(s, x) == SelectSeq(s, LAMBDA y : y # x)

\* sleeplock.c: lk->locked && lk->pid == myproc()->pid
holdingsleep(b, t) == sleeplock[b] = t

\* the spinlocks thread t holds
HeldBuckets(t) == {i \in Buckets : lock[i] = t}
HoldsSpin(t) == HeldBuckets(t) # {} \/ bcachelock = t

\* binit, bio.c:57-67: the loop nest as written.  The inner loop tests i, not
\* j, so it ends only by the return at line 61.
RECURSIVE binitLoop(_, _, _)
binitLoop(i, b, l) ==
  IF i < NBUF \div NBUCKET
  THEN IF b > NBUF THEN l
       ELSE binitLoop(i, b + 1, [l EXCEPT ![i] = <<b>> \o l[i]])
  ELSE binitLoop((i + 1) % NBUCKET, b, l)

binit == binitLoop(0, 1, [i \in Buckets |-> <<>>])

\* the lookup that starts at the second buffer of the list
RECURSIVE FindCachedFrom(_, _, _)
FindCachedFrom(s, d, bn) ==
  IF s = <<>> THEN None
  ELSE IF dev[Head(s)] = d /\ blockno[Head(s)] = bn THEN Head(s)
  ELSE FindCachedFrom(Tail(s), d, bn)

FindCached_SkipHead(s, d, bn) ==
  IF s = <<>> THEN None ELSE FindCachedFrom(Tail(s), d, bn)

\* bio.c:94-101: the first buffer of the list with this dev and blockno
RECURSIVE FindCached(_, _, _)
FindCached(s, d, bn) ==
  IF s = <<>> THEN None
  ELSE IF dev[Head(s)] = d /\ blockno[Head(s)] = bn THEN Head(s)
  ELSE FindCached(Tail(s), d, bn)

\* the scan without the refcnt test
RECURSIVE ScanLRU_AnyRef(_, _, _)
ScanLRU_AnyRef(s, min, empty) ==
  IF s = <<>> THEN empty
  ELSE IF timestamp[Head(s)] < min
       THEN ScanLRU_AnyRef(Tail(s), timestamp[Head(s)], Head(s))
       ELSE ScanLRU_AnyRef(Tail(s), min, empty)

\* bio.c:104-120: the unused buffer with the least timestamp below min
RECURSIVE ScanLRU(_, _, _)
ScanLRU(s, min, empty) ==
  IF s = <<>> THEN empty
  ELSE IF refcnt[Head(s)] = 0 /\ timestamp[Head(s)] < min
       THEN ScanLRU(Tail(s), timestamp[Head(s)], Head(s))
       ELSE ScanLRU(Tail(s), min, empty)

\* bio.c:132-137: the first unused buffer of the list
RECURSIVE FirstFree(_)
FirstFree(s) ==
  IF s = <<>> THEN None
  ELSE IF refcnt[Head(s)] = 0 THEN Head(s)
  ELSE FirstFree(Tail(s))

\* bio.c:127-130: the next bucket index from i on that is not h (NBUCKET if none)
RECURSIVE SkipOwn(_, _)
SkipOwn(i, h) ==
  IF i >= NBUCKET THEN NBUCKET
  ELSE IF i = h THEN SkipOwn(i + 1, h)
  ELSE i

\* ------------------------------------------------------------ Init ------
\* kalloc.c:39-45 and 70-71: freerange frees the pages in address order and
\* kfree pushes each on the head of the list, so the last page is the head
freerange == [k \in 1..NPAGE |-> NPAGE + 1 - k]

\* kalloc.c:27-36: the state kinit leaves when it runs on CPU c
kinit(c) ==
  /\ freelist = [d \in Cpus |-> IF d = c THEN freerange ELSE <<>>]
  /\ kmemlock = [d \in Cpus |-> None]
  /\ kpc = [t \in Threads |-> "kidle"]
  /\ hartid = [t \in Threads |-> 0]
  /\ ki = [t \in Threads |-> 0]
  /\ kr = [t \in Threads |-> None]
  /\ kpa = [t \in Threads |-> None]
  /\ owned = [t \in Threads |-> {}]

\* bio.c:44-67: the state binit leaves
binitState ==
  /\ list = binit
  /\ dev = [b \in Slots |-> 0]
  /\ blockno = [b \in Slots |-> 0]
  /\ valid = [b \in Slots |-> FALSE]
  /\ refcnt = [b \in Slots |-> 0]
  /\ timestamp = [b \in Slots |-> 0]
  /\ data = [b \in Slots |-> 0]
  /\ dirty = [b \in Slots |-> FALSE]
  /\ sleeplock = [b \in Slots |-> None]
  /\ lock = [i \in Buckets |-> None]
  /\ bcachelock = None
  /\ ticks = 0
  /\ disk = [d \in Devs |-> [bn \in Blocks |-> 0]]
  /\ pc = [t \in Threads |-> "idle"]
  /\ tdev = [t \in Threads |-> 0]
  /\ tblockno = [t \in Threads |-> 0]
  /\ th = [t \in Threads |-> 0]
  /\ ti = [t \in Threads |-> 0]
  /\ handle = [t \in Threads |-> None]
  /\ arg = [t \in Threads |-> None]
  /\ pins = [b \in Slots |-> 0]

\* the state after startup, kinit run by CPU 0
Init == binitState /\ kinit(0)

\* the state after startup, kinit run by any one CPU
InitAnyCpu == binitState /\ \E c \in Cpus : kinit(c)

\* ------------------------------------------------------------ bget ------
\* bread(dev, blockno) -> bget, bio.c:163-167 and 86-89
BreadCall(t, d, bn) ==
  /\ pc[t] = "idle"
  /\ handle[t] = None
  /\ pc' = [pc EXCEPT ![t] = "bget_acquire"]
  /\ tdev' = [tdev EXCEPT ![t] = d]
  /\ tblockno' = [tblockno EXCEPT ![t] = bn]
  /\ th' = [th EXCEPT ![t] = HASH(bn)]
  /\ UNCHANGED <<bufvars, lockvars, ticks, disk, ti, handle, arg, pins, kvars>>

\* bio.c:91
BgetAcquire(t) ==
  /\ pc[t] = "bget_acquire"
  /\ lock[th[t]] = None
  /\ lock' = [lock EXCEPT ![th[t]] = t]
  /\ pc' = [pc EXCEPT ![t] = "bget_search"]
  /\ UNCHANGED <<bufvars, bcachelock, ticks, disk, tdev, tblockno, th, ti,
                 handle, arg, pins, kvars>>

\* the hit that forgets refcnt++
BgetHit_NoRef(t, b) ==
  /\ lock' = [lock EXCEPT ![th[t]] = None]
  /\ handle' = [handle EXCEPT ![t] = b]
  /\ pc' = [pc EXCEPT ![t] = "acquiresleep"]
  /\ th' = [th EXCEPT ![t] = 0]
  /\ UNCHANGED <<list, dev, blockno, valid, refcnt, timestamp, data, dirty,
                 sleeplock, bcachelock, ticks, disk, tdev, tblockno, ti, arg,
                 pins, kvars>>

\* bio.c:94-100: cached
BgetHit(t, b) ==
  /\ refcnt' = [refcnt EXCEPT ![b] = @ + 1]
  /\ lock' = [lock EXCEPT ![th[t]] = None]
  /\ handle' = [handle EXCEPT ![t] = b]
  /\ pc' = [pc EXCEPT ![t] = "acquiresleep"]
  /\ th' = [th EXCEPT ![t] = 0]
  /\ UNCHANGED <<list, dev, blockno, valid, timestamp, data, dirty, sleeplock,
                 bcachelock, ticks, disk, tdev, tblockno, ti, arg, pins, kvars>>

\* EVICT without release(&map.lock[h])
Evict_KeepLock(t, b) ==
  /\ dev' = [dev EXCEPT ![b] = tdev[t]]
  /\ blockno' = [blockno EXCEPT ![b] = tblockno[t]]
  /\ valid' = [valid EXCEPT ![b] = FALSE]
  /\ refcnt' = [refcnt EXCEPT ![b] = 1]
  /\ lock' = lock
  /\ handle' = [handle EXCEPT ![t] = b]
  /\ pc' = [pc EXCEPT ![t] = "acquiresleep"]
  /\ th' = [th EXCEPT ![t] = 0]
  /\ ti' = [ti EXCEPT ![t] = 0]

\* EVICT without b->valid = 0
Evict_KeepValid(t, b) ==
  /\ dev' = [dev EXCEPT ![b] = tdev[t]]
  /\ blockno' = [blockno EXCEPT ![b] = tblockno[t]]
  /\ valid' = valid
  /\ refcnt' = [refcnt EXCEPT ![b] = 1]
  /\ lock' = [lock EXCEPT ![th[t]] = None]
  /\ handle' = [handle EXCEPT ![t] = b]
  /\ pc' = [pc EXCEPT ![t] = "acquiresleep"]
  /\ th' = [th EXCEPT ![t] = 0]
  /\ ti' = [ti EXCEPT ![t] = 0]

\* bio.c:151-156, label EVICT
Evict(t, b) ==
  /\ dev' = [dev EXCEPT ![b] = tdev[t]]
  /\ blockno' = [blockno EXCEPT ![b] = tblockno[t]]
  /\ valid' = [valid EXCEPT ![b] = FALSE]
  /\ refcnt' = [refcnt EXCEPT ![b] = 1]
  /\ lock' = [lock EXCEPT ![th[t]] = None]
  /\ handle' = [handle EXCEPT ![t] = b]
  /\ pc' = [pc EXCEPT ![t] = "acquiresleep"]
  /\ th' = [th EXCEPT ![t] = 0]
  /\ ti' = [ti EXCEPT ![t] = 0]

\* the search that releases map.lock[h] after a miss, before the steal path
BgetSearch_DropLock(t) ==
  /\ pc[t] = "bget_search"
  /\ LET h == th[t]
         hit == FindCached(list[h], tdev[t], tblockno[t])
         empty == ScanLRU(list[h], UintMax, None)
     IN IF hit # None THEN BgetHit(t, hit)
        ELSE IF empty # None
        THEN /\ Evict(t, empty)
             /\ UNCHANGED <<list, timestamp, data, dirty, sleeplock, bcachelock, ticks,
                            disk, tdev, tblockno, arg, pins, kvars>>
        ELSE /\ pc' = [pc EXCEPT ![t] = "steal_global"]
             /\ lock' = [lock EXCEPT ![h] = None]
             /\ UNCHANGED <<bufvars, bcachelock, ticks, disk, tdev, tblockno, th,
                            ti, handle, arg, pins, kvars>>

\* bio.c:94-125: search the bucket, then recycle its LRU unused buffer, or
\* go on to bcache.lock
BgetSearch(t) ==
  /\ pc[t] = "bget_search"
  /\ LET h == th[t]
         hit == FindCached(list[h], tdev[t], tblockno[t])
         empty == ScanLRU(list[h], UintMax, None)
     IN IF hit # None THEN BgetHit(t, hit)
        ELSE IF empty # None
        THEN /\ Evict(t, empty)
             /\ UNCHANGED <<list, timestamp, data, dirty, sleeplock, bcachelock, ticks,
                            disk, tdev, tblockno, arg, pins, kvars>>
        ELSE /\ pc' = [pc EXCEPT ![t] = "steal_global"]
             /\ UNCHANGED <<bufvars, lockvars, ticks, disk, tdev, tblockno, th,
                            ti, handle, arg, pins, kvars>>

\* the steal path that does not take bcache.lock
StealGlobal_NoLock(t) ==
  /\ pc[t] = "steal_global"
  /\ bcachelock' = bcachelock
  /\ LET i == SkipOwn(0, th[t])
     IN /\ ti' = [ti EXCEPT ![t] = i]
        /\ pc' = [pc EXCEPT ![t] = IF i >= NBUCKET THEN "panic_nobuf"
                                   ELSE "steal_acquire"]
  /\ UNCHANGED <<bufvars, lock, ticks, disk, tdev, tblockno, th, handle, arg,
                 pins, kvars>>

\* bio.c:125-130, and 140 when there is no other bucket
StealGlobal(t) ==
  /\ pc[t] = "steal_global"
  /\ bcachelock = None
  /\ bcachelock' = t
  /\ LET i == SkipOwn(0, th[t])
     IN /\ ti' = [ti EXCEPT ![t] = i]
        /\ pc' = [pc EXCEPT ![t] = IF i >= NBUCKET THEN "panic_nobuf"
                                   ELSE "steal_acquire"]
  /\ UNCHANGED <<bufvars, lock, ticks, disk, tdev, tblockno, th, handle, arg,
                 pins, kvars>>

\* bio.c:131
StealAcquire(t) ==
  /\ pc[t] = "steal_acquire"
  /\ lock[ti[t]] = None
  /\ lock' = [lock EXCEPT ![ti[t]] = t]
  /\ pc' = [pc EXCEPT ![t] = "steal_scan"]
  /\ UNCHANGED <<bufvars, bcachelock, ticks, disk, tdev, tblockno, th, ti,
                 handle, arg, pins, kvars>>

\* the steal path that jumps to EVICT without STEAL: the buffer stays on the
\* list of bucket i
StealScan_NoMove(t) ==
  /\ pc[t] = "steal_scan"
  /\ LET h == th[t]
         i == ti[t]
         empty == FirstFree(list[i])
         n == SkipOwn(i + 1, h)
     IN IF empty # None
        THEN /\ list' = list
             /\ lock' = [lock EXCEPT ![i] = None]
             /\ bcachelock' = None
             /\ handle' = [handle EXCEPT ![t] = empty]
             /\ pc' = [pc EXCEPT ![t] = "evict"]
             /\ UNCHANGED ti
        ELSE /\ lock' = [lock EXCEPT ![i] = None]
             /\ ti' = [ti EXCEPT ![t] = n]
             /\ pc' = [pc EXCEPT ![t] = IF n >= NBUCKET THEN "panic_nobuf"
                                        ELSE "steal_acquire"]
             /\ UNCHANGED <<list, bcachelock, handle>>
  /\ UNCHANGED <<dev, blockno, valid, refcnt, timestamp, data, dirty, sleeplock,
                 ticks, disk, tdev, tblockno, th, arg, pins, kvars>>

\* STEAL that links the buffer into bucket h without unlinking it from bucket i
StealScan_NoUnlink(t) ==
  /\ pc[t] = "steal_scan"
  /\ LET h == th[t]
         i == ti[t]
         empty == FirstFree(list[i])
         n == SkipOwn(i + 1, h)
     IN IF empty # None
        THEN /\ list' = [list EXCEPT ![h] = <<empty>> \o list[h]]
             /\ lock' = [lock EXCEPT ![i] = None]
             /\ bcachelock' = None
             /\ handle' = [handle EXCEPT ![t] = empty]
             /\ pc' = [pc EXCEPT ![t] = "evict"]
             /\ UNCHANGED ti
        ELSE /\ lock' = [lock EXCEPT ![i] = None]
             /\ ti' = [ti EXCEPT ![t] = n]
             /\ pc' = [pc EXCEPT ![t] = IF n >= NBUCKET THEN "panic_nobuf"
                                        ELSE "steal_acquire"]
             /\ UNCHANGED <<list, bcachelock, handle>>
  /\ UNCHANGED <<dev, blockno, valid, refcnt, timestamp, data, dirty, sleeplock,
                 ticks, disk, tdev, tblockno, th, arg, pins, kvars>>

\* the scan that forgets release(&map.lock[i]) when bucket i has no unused buffer
StealScan_KeepLock(t) ==
  /\ pc[t] = "steal_scan"
  /\ LET h == th[t]
         i == ti[t]
         empty == FirstFree(list[i])
         n == SkipOwn(i + 1, h)
     IN IF empty # None
        THEN /\ list' = [list EXCEPT ![i] = Remove(list[i], empty),
                                     ![h] = <<empty>> \o list[h]]
             /\ lock' = [lock EXCEPT ![i] = None]
             /\ bcachelock' = None
             /\ handle' = [handle EXCEPT ![t] = empty]
             /\ pc' = [pc EXCEPT ![t] = "evict"]
             /\ UNCHANGED ti
        ELSE /\ lock' = lock
             /\ ti' = [ti EXCEPT ![t] = n]
             /\ pc' = [pc EXCEPT ![t] = IF n >= NBUCKET THEN "panic_nobuf"
                                        ELSE "steal_acquire"]
             /\ UNCHANGED <<list, bcachelock, handle>>
  /\ UNCHANGED <<dev, blockno, valid, refcnt, timestamp, data, dirty, sleeplock,
                 ticks, disk, tdev, tblockno, th, arg, pins, kvars>>

\* bio.c:132-149: scan bucket i; on an unused buffer move it to the head of
\* bucket h (STEAL) and drop map.lock[i] and bcache.lock; else drop
\* map.lock[i] and go to the next bucket, or panic after the last (line 140)
StealScan(t) ==
  /\ pc[t] = "steal_scan"
  /\ LET h == th[t]
         i == ti[t]
         empty == FirstFree(list[i])
         n == SkipOwn(i + 1, h)
     IN IF empty # None
        THEN /\ list' = [list EXCEPT ![i] = Remove(list[i], empty),
                                     ![h] = <<empty>> \o list[h]]
             /\ lock' = [lock EXCEPT ![i] = None]
             /\ bcachelock' = None
             /\ handle' = [handle EXCEPT ![t] = empty]
             /\ pc' = [pc EXCEPT ![t] = "evict"]
             /\ UNCHANGED ti
        ELSE /\ lock' = [lock EXCEPT ![i] = None]
             /\ ti' = [ti EXCEPT ![t] = n]
             /\ pc' = [pc EXCEPT ![t] = IF n >= NBUCKET THEN "panic_nobuf"
                                        ELSE "steal_acquire"]
             /\ UNCHANGED <<list, bcachelock, handle>>
  /\ UNCHANGED <<dev, blockno, valid, refcnt, timestamp, data, dirty, sleeplock,
                 ticks, disk, tdev, tblockno, th, arg, pins, kvars>>

\* bio.c:151-156 after STEAL
StealEvict(t) ==
  /\ pc[t] = "evict"
  /\ Evict(t, handle[t])
  /\ UNCHANGED <<list, timestamp, data, dirty, sleeplock, bcachelock, ticks, disk,
                 tdev, tblockno, arg, pins, kvars>>

\* bio.c:98 and 157
Acquiresleep(t) ==
  /\ pc[t] = "acquiresleep"
  /\ sleeplock[handle[t]] = None
  /\ sleeplock' = [sleeplock EXCEPT ![handle[t]] = t]
  /\ pc' = [pc EXCEPT ![t] = "bread"]
  /\ UNCHANGED <<list, dev, blockno, valid, refcnt, timestamp, data, dirty, lockvars,
                 ticks, disk, tdev, tblockno, th, ti, handle, arg, pins, kvars>>

\* bio.c:168-172
Bread(t) ==
  /\ pc[t] = "bread"
  /\ LET b == handle[t]
     IN IF ~valid[b]
        THEN /\ data' = [data EXCEPT ![b] = disk[dev[b]][blockno[b]]]
             /\ valid' = [valid EXCEPT ![b] = TRUE]
             /\ dirty' = [dirty EXCEPT ![b] = FALSE]
        ELSE UNCHANGED <<data, valid, dirty>>
  /\ pc' = [pc EXCEPT ![t] = "holding"]
  /\ UNCHANGED <<list, dev, blockno, refcnt, timestamp, sleeplock, lockvars,
                 ticks, disk, tdev, tblockno, th, ti, handle, arg, pins, kvars>>

\* the position a call returns to: the caller holds a buffer or not
Return(t) == IF handle[t] # None THEN "holding" ELSE "idle"

\* ------------------------------------------------------------ bwrite ----
\* a caller calls bwrite(b), on the buffer it holds or on any other
BwriteCall(t, b) ==
  /\ pc[t] \in {"idle", "holding"}
  /\ arg' = [arg EXCEPT ![t] = b]
  /\ pc' = [pc EXCEPT ![t] = "bwrite"]
  /\ UNCHANGED <<bufvars, lockvars, ticks, disk, tdev, tblockno, th, ti,
                 handle, pins, kvars>>

\* bio.c:177-182
Bwrite(t) ==
  /\ pc[t] = "bwrite"
  /\ LET b == arg[t]
     IN IF ~holdingsleep(b, t)
        THEN /\ pc' = [pc EXCEPT ![t] = "panic_bwrite"]
             /\ UNCHANGED <<disk, arg, dirty>>
        ELSE /\ disk' = [disk EXCEPT ![dev[b]][blockno[b]] = data[b]]
             /\ dirty' = [dirty EXCEPT ![b] = FALSE]
             /\ pc' = [pc EXCEPT ![t] = Return(t)]
             /\ arg' = [arg EXCEPT ![t] = None]
  /\ UNCHANGED <<list, dev, blockno, valid, refcnt, timestamp, data, sleeplock,
                 lockvars, ticks, tdev, tblockno, th, ti, handle, pins, kvars>>

\* ------------------------------------------------------------ brelse ----
BrelseCall(t, b) ==
  /\ pc[t] \in {"idle", "holding"}
  /\ arg' = [arg EXCEPT ![t] = b]
  /\ pc' = [pc EXCEPT ![t] = "brelse"]
  /\ UNCHANGED <<bufvars, lockvars, ticks, disk, tdev, tblockno, th, ti,
                 handle, pins, kvars>>

\* brelse without the holdingsleep test
Brelse_NoCheck(t) ==
  /\ pc[t] = "brelse"
  /\ th' = [th EXCEPT ![t] = HASH(blockno[arg[t]])]
  /\ sleeplock' = [sleeplock EXCEPT ![arg[t]] = None]
  /\ pc' = [pc EXCEPT ![t] = "brelse_acquire"]
  /\ UNCHANGED <<list, dev, blockno, valid, refcnt, timestamp, data, dirty, lockvars,
                 ticks, disk, tdev, tblockno, ti, handle, arg, pins, kvars>>

\* brelse without releasesleep(&b->lock)
Brelse_KeepSleep(t) ==
  /\ pc[t] = "brelse"
  /\ LET b == arg[t]
     IN IF ~holdingsleep(b, t)
        THEN /\ pc' = [pc EXCEPT ![t] = "panic_brelse"]
             /\ UNCHANGED <<sleeplock, th>>
        ELSE /\ th' = [th EXCEPT ![t] = HASH(blockno[b])]
             /\ sleeplock' = sleeplock
             /\ pc' = [pc EXCEPT ![t] = "brelse_acquire"]
  /\ UNCHANGED <<list, dev, blockno, valid, refcnt, timestamp, data, dirty, lockvars,
                 ticks, disk, tdev, tblockno, ti, handle, arg, pins, kvars>>

\* bio.c:189-194
Brelse(t) ==
  /\ pc[t] = "brelse"
  /\ LET b == arg[t]
     IN IF ~holdingsleep(b, t)
        THEN /\ pc' = [pc EXCEPT ![t] = "panic_brelse"]
             /\ UNCHANGED <<sleeplock, th>>
        ELSE /\ th' = [th EXCEPT ![t] = HASH(blockno[b])]
             /\ sleeplock' = [sleeplock EXCEPT ![b] = None]
             /\ pc' = [pc EXCEPT ![t] = "brelse_acquire"]
  /\ UNCHANGED <<list, dev, blockno, valid, refcnt, timestamp, data, dirty, lockvars,
                 ticks, disk, tdev, tblockno, ti, handle, arg, pins, kvars>>

\* bio.c:196
BrelseAcquire(t) ==
  /\ pc[t] = "brelse_acquire"
  /\ lock[th[t]] = None
  /\ lock' = [lock EXCEPT ![th[t]] = t]
  /\ pc' = [pc EXCEPT ![t] = "brelse_locked"]
  /\ UNCHANGED <<bufvars, bcachelock, ticks, disk, tdev, tblockno, th, ti,
                 handle, arg, pins, kvars>>

\* brelse that forgets --b->refcnt
BrelseLocked_NoDec(t) ==
  /\ pc[t] = "brelse_locked"
  /\ lock' = [lock EXCEPT ![th[t]] = None]
  /\ pc' = [pc EXCEPT ![t] = "idle"]
  /\ handle' = [handle EXCEPT ![t] = None]
  /\ arg' = [arg EXCEPT ![t] = None]
  /\ tdev' = [tdev EXCEPT ![t] = 0]
  /\ tblockno' = [tblockno EXCEPT ![t] = 0]
  /\ th' = [th EXCEPT ![t] = 0]
  /\ ti' = [ti EXCEPT ![t] = 0]
  /\ UNCHANGED <<bufvars, bcachelock, ticks, disk, pins, kvars>>

\* bio.c:197-203; the caller's pointer is dead after brelse
BrelseLocked(t) ==
  /\ pc[t] = "brelse_locked"
  /\ LET b == arg[t]
     IN /\ refcnt' = [refcnt EXCEPT ![b] = @ - 1]
        /\ timestamp' = IF refcnt[b] - 1 = 0
                        THEN [timestamp EXCEPT ![b] = ticks]
                        ELSE timestamp
  /\ lock' = [lock EXCEPT ![th[t]] = None]
  /\ pc' = [pc EXCEPT ![t] = "idle"]
  /\ handle' = [handle EXCEPT ![t] = None]
  /\ arg' = [arg EXCEPT ![t] = None]
  /\ tdev' = [tdev EXCEPT ![t] = 0]
  /\ tblockno' = [tblockno EXCEPT ![t] = 0]
  /\ th' = [th EXCEPT ![t] = 0]
  /\ ti' = [ti EXCEPT ![t] = 0]
  /\ UNCHANGED <<list, dev, blockno, valid, data, dirty, sleeplock, bcachelock,
                 ticks, disk, pins, kvars>>

\* ------------------------------------------------------------ bpin ------
\* pins outstanding or being taken
PinsInUse ==
  SeqSum([b \in Slots |-> pins[b]])
    + Cardinality({t \in Threads :
                     pc[t] \in {"bpin_acquire", "bpin_locked",
                                "bunpin_acquire", "bunpin_locked"}})

\* bio.c:207-208: the holder of a buffer pins it
BpinCall(t) ==
  /\ pc[t] = "holding"
  /\ PinsInUse < MaxPins
  /\ arg' = [arg EXCEPT ![t] = handle[t]]
  /\ th' = [th EXCEPT ![t] = HASH(blockno[handle[t]])]
  /\ pc' = [pc EXCEPT ![t] = "bpin_acquire"]
  /\ UNCHANGED <<bufvars, lockvars, ticks, disk, tdev, tblockno, ti, handle,
                 pins, kvars>>

\* bio.c:209
BpinAcquire(t) ==
  /\ pc[t] = "bpin_acquire"
  /\ lock[th[t]] = None
  /\ lock' = [lock EXCEPT ![th[t]] = t]
  /\ pc' = [pc EXCEPT ![t] = "bpin_locked"]
  /\ UNCHANGED <<bufvars, bcachelock, ticks, disk, tdev, tblockno, th, ti,
                 handle, arg, pins, kvars>>

\* bio.c:210-211
BpinLocked(t) ==
  /\ pc[t] = "bpin_locked"
  /\ refcnt' = [refcnt EXCEPT ![arg[t]] = @ + 1]
  /\ pins' = [pins EXCEPT ![arg[t]] = @ + 1]
  /\ lock' = [lock EXCEPT ![th[t]] = None]
  /\ pc' = [pc EXCEPT ![t] = Return(t)]
  /\ arg' = [arg EXCEPT ![t] = None]
  /\ th' = [th EXCEPT ![t] = 0]
  /\ UNCHANGED <<list, dev, blockno, valid, timestamp, data, dirty, sleeplock,
                 bcachelock, ticks, disk, tdev, tblockno, ti, handle, kvars>>

\* ------------------------------------------------------------ bunpin ----
\* bio.c:215-216: any thread gives back a pin taken before
BunpinCall(t, b) ==
  /\ pc[t] \in {"idle", "holding"}
  /\ pins[b] > 0
  /\ pins' = [pins EXCEPT ![b] = @ - 1]
  /\ arg' = [arg EXCEPT ![t] = b]
  /\ th' = [th EXCEPT ![t] = HASH(blockno[b])]
  /\ pc' = [pc EXCEPT ![t] = "bunpin_acquire"]
  /\ UNCHANGED <<bufvars, lockvars, ticks, disk, tdev, tblockno, ti, handle,
                 kvars>>

\* bio.c:217
BunpinAcquire(t) ==
  /\ pc[t] = "bunpin_acquire"
  /\ lock[th[t]] = None
  /\ lock' = [lock EXCEPT ![th[t]] = t]
  /\ pc' = [pc EXCEPT ![t] = "bunpin_locked"]
  /\ UNCHANGED <<bufvars, bcachelock, ticks, disk, tdev, tblockno, th, ti,
                 handle, arg, pins, kvars>>

\* bio.c:218-219
BunpinLocked(t) ==
  /\ pc[t] = "bunpin_locked"
  /\ refcnt' = [refcnt EXCEPT ![arg[t]] = @ - 1]
  /\ lock' = [lock EXCEPT ![th[t]] = None]
  /\ pc' = [pc EXCEPT ![t] = Return(t)]
  /\ arg' = [arg EXCEPT ![t] = None]
  /\ th' = [th EXCEPT ![t] = 0]
  /\ UNCHANGED <<list, dev, blockno, valid, timestamp, data, dirty, sleeplock,
                 bcachelock, ticks, disk, tdev, tblockno, ti, handle, pins,
                 kvars>>

\* ------------------------------------------------------------ callers ---
\* the holder of a buffer changes its content
Modify(t, c) ==
  /\ pc[t] = "holding"
  /\ data[handle[t]] # c
  /\ data' = [data EXCEPT ![handle[t]] = c]
  /\ dirty' = [dirty EXCEPT ![handle[t]] = TRUE]
  /\ UNCHANGED <<list, dev, blockno, valid, refcnt, timestamp, sleeplock,
                 lockvars, ticks, disk, thrvars, pins, kvars>>

\* the timer interrupt: ticks++ on a uint
Tick ==
  /\ ticks' = (ticks + 1) % (UintMax + 1)
  /\ UNCHANGED <<bufvars, lockvars, disk, thrvars, pins, kvars>>

\* every step of bget, bread, bwrite and brelse but the call of bread
Steps ==
  \/ \E t \in Threads : BgetAcquire(t)
  \/ \E t \in Threads : BgetSearch(t)
  \/ \E t \in Threads : StealGlobal(t)
  \/ \E t \in Threads : StealAcquire(t)
  \/ \E t \in Threads : StealScan(t)
  \/ \E t \in Threads : StealEvict(t)
  \/ \E t \in Threads : Acquiresleep(t)
  \/ \E t \in Threads : Bread(t)
  \/ \E t \in Threads : pc[t] = "holding" /\ BwriteCall(t, handle[t])
  \/ \E t \in Threads : Bwrite(t)
  \/ \E t \in Threads : pc[t] = "holding" /\ BrelseCall(t, handle[t])
  \/ \E t \in Threads : Brelse(t)
  \/ \E t \in Threads : BrelseAcquire(t)
  \/ \E t \in Threads : BrelseLocked(t)

\* the steps of bpin and bunpin
PinSteps ==
  \/ \E t \in Threads : BpinCall(t)
  \/ \E t \in Threads : BpinAcquire(t)
  \/ \E t \in Threads : BpinLocked(t)
  \/ \E t \in Threads, b \in Slots : BunpinCall(t, b)
  \/ \E t \in Threads : BunpinAcquire(t)
  \/ \E t \in Threads : BunpinLocked(t)

\* every step but the call of bread
Rest ==
  \/ Steps
  \/ PinSteps

\* callers that keep to the interface, while the clock stands still
Next ==
  \/ \E t \in Threads, d \in Devs, bn \in Blocks : BreadCall(t, d, bn)
  \/ Rest

Spec == Init /\ [][Next]_vars

\* the same callers on device 0, with the timer interrupt
NextTick ==
  \/ \E t \in Threads, bn \in Blocks : BreadCall(t, 0, bn)
  \/ Rest
  \/ Tick

SpecTick == Init /\ [][NextTick]_vars

\* callers on device 0 that also call bwrite and brelse on buffers they do
\* not hold
NextViol ==
  \/ \E t \in Threads, bn \in Blocks : BreadCall(t, 0, bn)
  \/ Rest
  \/ \E t \in Threads, b \in Slots : ~holdingsleep(b, t) /\ BwriteCall(t, b)
  \/ \E t \in Threads, b \in Slots : ~holdingsleep(b, t) /\ BrelseCall(t, b)

SpecViol == Init /\ [][NextViol]_vars

\* callers on device 0 that change the content of the buffer they hold and
\* take no pins
NextIO ==
  \/ \E t \in Threads, bn \in Blocks : BreadCall(t, 0, bn)
  \/ Steps
  \/ \E t \in Threads, c \in Content : Modify(t, c)

SpecIO == Init /\ [][NextIO]_vars

\* ------------------------------------------------------------ kalloc ----
\* kalloc.c:94-97: the next CPU index from i on that is not hartid (NCPU if none)
RECURSIVE SkipSelf(_, _)
SkipSelf(i, h) ==
  IF i >= NCPU THEN NCPU
  ELSE IF i = h THEN SkipSelf(i + 1, h)
  ELSE i

\* kalloc.c:105-110: the number of pages from the head of list s to current,
\* which walks at most StealWalk times down the list
ChainLen(s) == IF Len(s) <= StealWalk + 1 THEN Len(s) ELSE StealWalk + 1

\* kalloc.c:84-86: hartid = cpuid() with interrupts off for that call only
KallocCall(t, c) ==
  /\ kpc[t] = "kidle"
  /\ hartid' = [hartid EXCEPT ![t] = c]
  /\ kpc' = [kpc EXCEPT ![t] = "kalloc_acquire"]
  /\ UNCHANGED <<biovars, freelist, kmemlock, ki, kr, kpa, owned>>

\* kalloc.c:88
KallocAcquire(t) ==
  /\ kpc[t] = "kalloc_acquire"
  /\ kmemlock[hartid[t]] = None
  /\ kmemlock' = [kmemlock EXCEPT ![hartid[t]] = t]
  /\ kpc' = [kpc EXCEPT ![t] = "kalloc_take"]
  /\ UNCHANGED <<biovars, freelist, hartid, ki, kr, kpa, owned>>

\* kalloc.c:89-97: take the head of the own list, or start the loop over the
\* other CPUs
KallocTake(t) ==
  /\ kpc[t] = "kalloc_take"
  /\ LET h == hartid[t]
         i == SkipSelf(0, h)
     IN IF freelist[h] # <<>>
        THEN /\ kr' = [kr EXCEPT ![t] = Head(freelist[h])]
             /\ freelist' = [freelist EXCEPT ![h] = Tail(freelist[h])]
             /\ kpc' = [kpc EXCEPT ![t] = "kalloc_release"]
             /\ UNCHANGED ki
        ELSE /\ kr' = [kr EXCEPT ![t] = None]
             /\ ki' = [ki EXCEPT ![t] = i]
             /\ kpc' = [kpc EXCEPT ![t] = IF i >= NCPU THEN "kalloc_release"
                                          ELSE "kalloc_steal_acquire"]
             /\ UNCHANGED freelist
  /\ UNCHANGED <<biovars, kmemlock, hartid, kpa, owned>>

\* kalloc.c:98
KallocStealAcquire(t) ==
  /\ kpc[t] = "kalloc_steal_acquire"
  /\ kmemlock[ki[t]] = None
  /\ kmemlock' = [kmemlock EXCEPT ![ki[t]] = t]
  /\ kpc' = [kpc EXCEPT ![t] = "kalloc_steal"]
  /\ UNCHANGED <<biovars, freelist, hartid, ki, kr, kpa, owned>>

\* the steal that leaves kmem[i].freelist as it was
KallocSteal_NoCut(t) ==
  /\ kpc[t] = "kalloc_steal"
  /\ LET h == hartid[t]
         i == ki[t]
         n == ChainLen(freelist[i])
         next == SkipSelf(i + 1, h)
     IN IF freelist[i] = <<>>
        THEN /\ ki' = [ki EXCEPT ![t] = next]
             /\ kpc' = [kpc EXCEPT ![t] = IF next >= NCPU THEN "kalloc_release"
                                          ELSE "kalloc_steal_acquire"]
             /\ UNCHANGED <<freelist, kr>>
        ELSE /\ kr' = [kr EXCEPT ![t] = Head(freelist[i])]
             /\ freelist' = [freelist EXCEPT
                               ![h] = SubSeq(freelist[i], 2, n)]
             /\ kpc' = [kpc EXCEPT ![t] = "kalloc_release"]
             /\ UNCHANGED ki
  /\ kmemlock' = [kmemlock EXCEPT ![ki[t]] = None]
  /\ UNCHANGED <<biovars, hartid, kpa, owned>>

\* kalloc.c:99-119: an empty list i is left alone and the loop goes on; else
\* the chain from the head of list i to current is cut off list i, its head
\* is r and the rest of it becomes the own list
KallocSteal(t) ==
  /\ kpc[t] = "kalloc_steal"
  /\ LET h == hartid[t]
         i == ki[t]
         n == ChainLen(freelist[i])
         next == SkipSelf(i + 1, h)
     IN IF freelist[i] = <<>>
        THEN /\ ki' = [ki EXCEPT ![t] = next]
             /\ kpc' = [kpc EXCEPT ![t] = IF next >= NCPU THEN "kalloc_release"
                                          ELSE "kalloc_steal_acquire"]
             /\ UNCHANGED <<freelist, kr>>
        ELSE /\ kr' = [kr EXCEPT ![t] = Head(freelist[i])]
             /\ freelist' = [freelist EXCEPT
                               ![i] = SubSeq(freelist[i], n + 1, Len(freelist[i])),
                               ![h] = SubSeq(freelist[i], 2, n)]
             /\ kpc' = [kpc EXCEPT ![t] = "kalloc_release"]
             /\ UNCHANGED ki
  /\ kmemlock' = [kmemlock EXCEPT ![ki[t]] = None]
  /\ UNCHANGED <<biovars, hartid, kpa, owned>>

\* kalloc.c:122-126: release the own lock and return r
KallocRelease(t) ==
  /\ kpc[t] = "kalloc_release"
  /\ kmemlock' = [kmemlock EXCEPT ![hartid[t]] = None]
  /\ owned' = [owned EXCEPT ![t] = IF kr[t] = None THEN @ ELSE @ \cup {kr[t]}]
  /\ kr' = [kr EXCEPT ![t] = None]
  /\ ki' = [ki EXCEPT ![t] = 0]
  /\ hartid' = [hartid EXCEPT ![t] = 0]
  /\ kpc' = [kpc EXCEPT ![t] = "kidle"]
  /\ UNCHANGED <<biovars, freelist, kpa>>

\* kalloc.c:52-67: a caller frees a page that kalloc returned to it
KfreeCall(t, pa, c) ==
  /\ kpc[t] = "kidle"
  /\ pa \in owned[t]
  /\ owned' = [owned EXCEPT ![t] = @ \ {pa}]
  /\ kpa' = [kpa EXCEPT ![t] = pa]
  /\ hartid' = [hartid EXCEPT ![t] = c]
  /\ kpc' = [kpc EXCEPT ![t] = "kfree_acquire"]
  /\ UNCHANGED <<biovars, freelist, kmemlock, ki, kr>>

\* kalloc.c:69
KfreeAcquire(t) ==
  /\ kpc[t] = "kfree_acquire"
  /\ kmemlock[hartid[t]] = None
  /\ kmemlock' = [kmemlock EXCEPT ![hartid[t]] = t]
  /\ kpc' = [kpc EXCEPT ![t] = "kfree_push"]
  /\ UNCHANGED <<biovars, freelist, hartid, ki, kr, kpa, owned>>

\* kalloc.c:70-72
KfreePush(t) ==
  /\ kpc[t] = "kfree_push"
  /\ freelist' = [freelist EXCEPT ![hartid[t]] = <<kpa[t]>> \o @]
  /\ kmemlock' = [kmemlock EXCEPT ![hartid[t]] = None]
  /\ kpa' = [kpa EXCEPT ![t] = None]
  /\ hartid' = [hartid EXCEPT ![t] = 0]
  /\ kpc' = [kpc EXCEPT ![t] = "kidle"]
  /\ UNCHANGED <<biovars, ki, kr, owned>>

\* callers of kalloc and kfree on any CPU
NextKalloc ==
  \/ \E t \in Threads, c \in Cpus : KallocCall(t, c)
  \/ \E t \in Threads : KallocAcquire(t)
  \/ \E t \in Threads : KallocTake(t)
  \/ \E t \in Threads : KallocStealAcquire(t)
  \/ \E t \in Threads : KallocSteal(t)
  \/ \E t \in Threads : KallocRelease(t)
  \/ \E t \in Threads, pa \in Pages, c \in Cpus : KfreeCall(t, pa, c)
  \/ \E t \in Threads : KfreeAcquire(t)
  \/ \E t \in Threads : KfreePush(t)

SpecKalloc == InitAnyCpu /\ [][NextKalloc]_vars

\* ------------------------------------------------------------ claims ----
\* the spinlock thread t is spinning on: its holder, or None when t is not
\* at an acquire or the lock is free
SpinsOn(t) ==
  IF pc[t] \in {"bget_acquire", "brelse_acquire", "bpin_acquire",
                "bunpin_acquire"}
  THEN lock[th[t]]
  ELSE IF pc[t] = "steal_acquire" THEN lock[ti[t]]
  ELSE IF pc[t] = "steal_global" THEN bcachelock
  ELSE None

\* a set of threads each spinning on a lock held by a thread of the set
Deadlocked(S) == S # {} /\ \A t \in S : SpinsOn(t) \in S

\* C1: no deadlock is reachable: there is never a set of threads each waiting
\* for a bucket lock or bcache.lock that another thread of the set holds.
C1_NoDeadlock == ~ \E S \in SUBSET Threads : Deadlocked(S)

\* C1 is refuted by this state: both buffers are referenced, thread t holds
\* its bucket lock and bcache.lock and spins on the bucket lock of u, which
\* spins on bcache.lock.
C1_StealDeadlock ==
  \E t \in Threads, u \in Threads :
    /\ pc[t] = "steal_acquire" /\ lock[ti[t]] = u
    /\ pc[u] = "steal_global" /\ bcachelock = t

\* thread t picks buffer b as the one to recycle in this step: locally
\* (bio.c:121-122) or from another bucket (bio.c:133-135)
PicksVictim(t, b) ==
  \/ /\ pc[t] = "bget_search" /\ pc'[t] = "acquiresleep" /\ handle'[t] = b
     /\ ~(dev[b] = tdev[t] /\ blockno[b] = tblockno[t])
  \/ pc[t] = "steal_scan" /\ pc'[t] = "evict" /\ handle'[t] = b

\* C2: a buffer with refcnt > 0 is never picked as the buffer to recycle,
\* neither locally nor by the steal path, it is still unreferenced when the
\* steal path overwrites it, and its (dev, blockno) is not changed by any step.
C2_EvictionSafety ==
  [][ /\ \A b \in Slots : refcnt[b] > 0 =>
           /\ dev'[b] = dev[b]
           /\ blockno'[b] = blockno[b]
           /\ \A t \in Threads : ~PicksVictim(t, b)
      /\ \A t \in Threads : pc[t] = "evict" => refcnt[handle[t]] = 0 ]_vars

\* C2 witness: a thread has stolen a buffer into its bucket because the
\* buffers of its own bucket are referenced; it still holds the bucket lock.
C2_Witness ==
  \E t \in Threads :
    /\ pc[t] = "evict"
    /\ \E i \in 1..Len(list[th[t]]) :
         list[th[t]][i] # handle[t] /\ refcnt[list[th[t]][i]] > 0

\* C3: no two referenced (held or pinned) buffers carry the same
\* (dev, blockno), and two callers that have claimed a buffer for the same
\* (dev, blockno) have claimed the same buffer.
C3_Dedup ==
  /\ \A b1 \in Slots, b2 \in Slots :
       (b1 # b2 /\ refcnt[b1] > 0 /\ refcnt[b2] > 0)
         => ~(dev[b1] = dev[b2] /\ blockno[b1] = blockno[b2])
  /\ \A t1 \in Threads, t2 \in Threads :
       (handle[t1] # None /\ handle[t2] # None
          /\ tdev[t1] = tdev[t2] /\ tblockno[t1] = tblockno[t2])
         => handle[t1] = handle[t2]

\* C3 witness: two callers of bread for the same block have claimed the same
\* buffer; one holds it and the other waits for its sleeplock.
C3_Witness ==
  \E t1 \in Threads, t2 \in Threads :
    /\ t1 # t2
    /\ pc[t1] = "holding" /\ pc[t2] = "acquiresleep"
    /\ tdev[t1] = tdev[t2] /\ tblockno[t1] = tblockno[t2]
    /\ handle[t1] = handle[t2]
    /\ refcnt[handle[t1]] >= 2

\* thread t is between the return of bget and the releasesleep of brelse
Holds(t) ==
  /\ handle[t] # None
  /\ pc[t] \notin {"evict", "acquiresleep", "brelse_acquire", "brelse_locked"}

\* C4: between the return of bget and the release, the caller holds the
\* sleeplock of its buffer, the buffer carries the (dev, blockno) the caller
\* asked for, and no other caller is in that position on the same buffer.
C4_Exclusivity ==
  /\ \A t \in Threads : Holds(t) =>
       /\ holdingsleep(handle[t], t)
       /\ dev[handle[t]] = tdev[t]
       /\ blockno[handle[t]] = tblockno[t]
  /\ \A t1 \in Threads, t2 \in Threads :
       (t1 # t2 /\ Holds(t1) /\ Holds(t2)) => handle[t1] # handle[t2]

\* C4 witness: a caller holds a buffer on which another caller, who hit it,
\* is blocked.
C4_Witness ==
  \E t1 \in Threads, t2 \in Threads :
    /\ t1 # t2
    /\ Holds(t1) /\ pc[t1] = "holding"
    /\ pc[t2] = "acquiresleep" /\ handle[t2] = handle[t1]
    /\ valid[handle[t1]]

\* handles outstanding: buffers claimed by bget and not yet released
Handles == Cardinality({t \in Threads : handle[t] # None})
\* pins outstanding: taken by bpin and not yet given back by a finished bunpin
Pinned ==
  SeqSum([b \in Slots |-> pins[b]])
    + Cardinality({t \in Threads : pc[t] \in {"bunpin_acquire", "bunpin_locked"}})
RefSum == SeqSum([b \in Slots |-> refcnt[b]])

\* C5: the sum of refcnt over all buffers never exceeds the number of
\* outstanding handles plus the number of outstanding pins.
C5_Conservation == RefSum <= Handles + Pinned

\* C5 witness: handles and pins are outstanding and every one of them is
\* counted in refcnt.
C5_Witness ==
  /\ Handles = 2
  /\ SeqSum([b \in Slots |-> pins[b]]) >= 1
  /\ RefSum = Handles + Pinned

\* C6: a thread that is about to block on a sleeplock or to do device I/O
\* holds no bucket lock and not bcache.lock.
C6_NoSpinlockAcrossSleep ==
  \A t \in Threads :
    pc[t] \in {"acquiresleep", "bread", "bwrite"} => ~HoldsSpin(t)

\* C6 witness: a thread that left bget's locked section is blocked in
\* acquiresleep on a sleeplock that another thread holds.
C6_Witness ==
  \E t \in Threads :
    /\ pc[t] = "acquiresleep"
    /\ sleeplock[handle[t]] \notin {None, t}

\* thread t fails in this step with panic("bget: no buffers"), bio.c:140
PanicsNoBuffers(t) == pc[t] # "panic_nobuf" /\ pc'[t] = "panic_nobuf"

\* C7: bget fails with "no buffers" only in a state in which no buffer of
\* any bucket has refcnt == 0.
C7_ExhaustedOnlyIfNoneFree ==
  [][ \A t \in Threads :
        PanicsNoBuffers(t) => \A b \in Slots : refcnt[b] # 0 ]_vars

\* C7 is refuted by this state: bget has failed although a buffer of its own
\* bucket is unused; that buffer was released at ticks = UintMax, the start
\* value of min in the scan of bio.c:104-120.
C7_SentinelState ==
  \E t \in Threads, b \in Slots :
    /\ pc[t] = "panic_nobuf"
    /\ lock[HASH(tblockno[t])] = t
    /\ \E i \in 1..Len(list[HASH(tblockno[t])]) : list[HASH(tblockno[t])][i] = b
    /\ refcnt[b] = 0
    /\ timestamp[b] = UintMax

\* the positions of bget before a buffer is claimed
BgetPcs == {"bget_acquire", "bget_search", "steal_global", "steal_acquire",
            "steal_scan"}

\* a step of thread t inside bget that claims no buffer
AttemptStep(t) ==
  /\ pc[t] \in BgetPcs
  /\ pc'[t] \in BgetPcs \cup {"panic_nobuf"}
  /\ pc'[t] # pc[t]

\* C8 as claimed: a bget that fails with "no buffers" has changed no bucket
\* list and no buffer's dev, blockno or refcnt, and the failing caller holds
\* neither a bucket lock nor bcache.lock.
C8_FailureLeavesNoLock ==
  [][ \A t \in Threads :
        /\ AttemptStep(t) => UNCHANGED <<list, dev, blockno, refcnt>>
        /\ PanicsNoBuffers(t) =>
             /\ \A i \in Buckets : lock'[i] # t
             /\ bcachelock' # t ]_vars

\* C8 as amended: a bget that fails with "no buffers" has changed no bucket
\* list and no buffer's dev, blockno or refcnt; the failing caller still holds
\* the lock of its own bucket and bcache.lock, and no other bucket lock.
C8_FailureKeepsOwnLocks ==
  [][ \A t \in Threads :
        /\ AttemptStep(t) => UNCHANGED <<list, dev, blockno, refcnt>>
        /\ PanicsNoBuffers(t) =>
             /\ {i \in Buckets : lock'[i] = t} = {HASH(tblockno[t])}
             /\ bcachelock' = t ]_vars

\* C8 witness: a bget has failed with "no buffers" after scanning the other
\* bucket; every buffer is referenced.
C8_Witness ==
  \E t \in Threads :
    /\ pc[t] = "panic_nobuf"
    /\ ti[t] = NBUCKET
    /\ \A b \in Slots : refcnt[b] > 0

\* thread t runs the body of a bwrite or brelse whose argument it does not hold
BadCallStep(t) ==
  /\ pc[t] \in {"bwrite", "brelse"}
  /\ pc'[t] # pc[t]
  /\ ~holdingsleep(arg[t], t)

\* C9: bwrite(b) and brelse(b) by a thread that does not hold b's sleeplock
\* panic before any effect: no device write, no sleeplock released, no refcnt
\* and no timestamp changed.
C9_ProtocolViolationPanics ==
  [][ \A t \in Threads :
        BadCallStep(t) =>
          /\ pc'[t] = IF pc[t] = "bwrite" THEN "panic_bwrite" ELSE "panic_brelse"
          /\ UNCHANGED <<disk, sleeplock, refcnt, timestamp>> ]_vars

\* C9 witness: one thread has panicked in bwrite on a buffer that the other
\* thread holds, and that other thread has panicked in brelse on a buffer it
\* does not hold.
C9_Witness ==
  \E t \in Threads, u \in Threads :
    /\ pc[t] = "panic_bwrite" /\ sleeplock[arg[t]] = u
    /\ pc[u] = "panic_brelse" /\ sleeplock[arg[u]] # u

\* thread t gives buffer b a new identity in this step (EVICT, bio.c:151-156)
Admits(t, b) ==
  /\ pc'[t] = "acquiresleep" /\ handle'[t] = b
  /\ \/ pc[t] = "evict"
     \/ /\ pc[t] = "bget_search"
        /\ ~(dev[b] = tdev[t] /\ blockno[b] = tblockno[t])

\* buffer b is on the list that a lookup of its (dev, blockno) searches
Cached(b) ==
  \E i \in 1..Len(list[HASH(blockno[b])]) : list[HASH(blockno[b])][i] = b

\* a cached buffer that is valid and was not changed since it was read or
\* written holds what the device stores for its block
CleanCopy ==
  \A b \in Slots :
    (Cached(b) /\ valid[b] /\ ~dirty[b]) => data[b] = disk[dev[b]][blockno[b]]

\* C10: a cached buffer that is valid and was not changed since it was read or
\* written holds what the device stores for its block; a freshly admitted
\* buffer has valid = 0; bread on a buffer that is not valid loads the block
\* the caller asked for, and bread on a valid buffer leaves its content alone.
\* So what bwrite stored is what bread returns after the block was evicted.
C10_RoundTrip ==
  [][ /\ CleanCopy'
      /\ \A t \in Threads, b \in Slots : Admits(t, b) => ~valid'[b]
      /\ \A t \in Threads :
           (pc[t] = "bread" /\ pc'[t] = "holding") =>
             IF valid[handle[t]]
             THEN data' = data
             ELSE data'[handle[t]] = disk[tdev[t]][tblockno[t]] ]_vars

\* C10 witness: a caller holds a freshly admitted buffer (valid = 0, stale
\* content 0) for a block whose content 1 was written through another
\* admission of that block and has since been evicted; bread is about to
\* load it.
C10_Witness ==
  \E t \in Threads :
    /\ pc[t] = "bread"
    /\ ~valid[handle[t]]
    /\ data[handle[t]] = 0
    /\ disk[tdev[t]][tblockno[t]] = 1

\* thread t holds the sleeplock of some buffer
HoldsContent(t) == \E b \in Slots : holdingsleep(b, t)

\* thread t acquires a bucket lock in this step
AcquiresBucket(t) == \E i \in Buckets : lock[i] # t /\ lock'[i] = t

\* thread t acquires a sleeplock in this step
AcquiresContent(t) == \E b \in Slots : sleeplock[b] # t /\ sleeplock'[b] = t

\* C11 as claimed: no thread acquires a bucket lock while it holds the
\* sleeplock of a buffer, in brelse and also in bpin and bunpin called by the
\* holder of the buffer.
C11_NoBucketLockUnderSleeplock ==
  [][ \A t \in Threads : AcquiresBucket(t) => ~HoldsContent(t) ]_vars

\* C11 as amended: brelse has released the sleeplock when it acquires the
\* bucket lock and bget holds no bucket lock when it acquires a sleeplock;
\* the only acquire of a bucket lock under a sleeplock is that of bpin and
\* bunpin called by the holder of a buffer, on the bucket of their argument.
C11_OnlyPinNestsUnderSleeplock ==
  [][ \A t \in Threads :
        /\ (AcquiresBucket(t) /\ HoldsContent(t)) =>
             /\ pc[t] \in {"bpin_acquire", "bunpin_acquire"}
             /\ lock'[HASH(blockno[arg[t]])] = t
        /\ (AcquiresBucket(t) /\ pc[t] = "brelse_acquire") => ~HoldsContent(t)
        /\ AcquiresContent(t) => HeldBuckets(t) = {} ]_vars

\* C11 witness: the holder of a buffer is inside bpin with the bucket lock
\* of that buffer, still holding its sleeplock.
C11_Witness ==
  \E t \in Threads :
    /\ pc[t] = "bpin_locked"
    /\ holdingsleep(arg[t], t)
    /\ lock[th[t]] = t

\* the places of buffer b on the bucket lists: pairs of bucket and position
Places(b) ==
  {p \in Buckets \X (1..NBUF) : p[2] <= Len(list[p[1]]) /\ list[p[1]][p[2]] = b}

\* every buffer is on exactly one bucket list, once
OneList == \A b \in Slots : Cardinality(Places(b)) = 1

\* thread t moves buffer b from bucket i to the head of bucket h in this
\* step (STEAL, bio.c:143-147)
Steals(t, b, i, h) ==
  /\ pc[t] = "steal_scan" /\ ti[t] = i /\ th[t] = h /\ i # h
  /\ list' = [list EXCEPT ![i] = Remove(list[i], b), ![h] = <<b>> \o list[h]]

\* C12: every buffer is on exactly one bucket list in every state (so the
\* lists hold NBUF buffers in all), and a list changes only by the STEAL of
\* bget, done by a thread that holds bcache.lock and the locks of both
\* buckets, which moves one buffer from one bucket to another.
C12_OneListMovedOnlyBySteal ==
  [][ /\ OneList /\ OneList'
      /\ SeqSum([i \in 1..NBUCKET |-> Len(list'[i - 1])]) = NBUF
      /\ (list' # list) =>
           \E t \in Threads, b \in Slots, i \in Buckets, h \in Buckets :
             /\ Steals(t, b, i, h)
             /\ bcachelock = t /\ lock[i] = t /\ lock[h] = t ]_vars

\* C12 witness: a buffer has just been stolen out of bucket 0, where binit
\* put it, into the bucket of the thread that is about to admit it.
C12_Witness ==
  \E t \in Threads :
    /\ pc[t] = "evict"
    /\ th[t] # 0
    /\ Places(handle[t]) = {<<th[t], 1>>}
    /\ Len(list[0]) < NBUF

\* the positions of bget between acquire(&bcache.lock) and the release of
\* bcache.lock, or the panic
StealPcs == {"steal_acquire", "steal_scan", "panic_nobuf"}

\* the threads that hold two or more bucket locks
TwoLockers == {t \in Threads : Cardinality(HeldBuckets(t)) >= 2}

\* C13: at most one thread holds two bucket locks at a time; a thread that
\* holds two bucket locks also holds bcache.lock and is in the steal path of
\* bget, where it holds its own bucket and the one it scans; everywhere else a
\* thread holds at most one bucket lock.
C13_TwoBucketLocksOnlyInSteal ==
  /\ Cardinality(TwoLockers) <= 1
  /\ \A t \in TwoLockers :
       /\ bcachelock = t
       /\ pc[t] = "steal_scan"
       /\ HeldBuckets(t) = {th[t], ti[t]}
  /\ \A t \in Threads : pc[t] \notin StealPcs => Cardinality(HeldBuckets(t)) <= 1

\* C13 witness: a thread in the steal path holds two bucket locks and
\* bcache.lock while another thread spins on one of those bucket locks.
C13_Witness ==
  \E t \in Threads, u \in Threads :
    /\ t \in TwoLockers /\ bcachelock = t
    /\ u # t /\ SpinsOn(u) = t

\* C14: in the state binit leaves, every buffer is on exactly one bucket list
\* and every bucket holds at least NBUF / NBUCKET buffers (round-robin).
C14_RoundRobin ==
  (list = binit) =>
    /\ OneList
    /\ \A i \in Buckets : Len(list[i]) >= NBUF \div NBUCKET

\* C14 is refuted by the state binit leaves: all NBUF buffers are on the list
\* of bucket 0 and every other bucket is empty.
C14_AllInBucketZero ==
  /\ list = binit
  /\ Len(list[0]) = NBUF
  /\ \A i \in Buckets \ {0} : list[i] = <<>>

\* C15: every step that takes a buffer's refcnt from positive to 0, in brelse
\* or in bunpin, leaves the buffer's timestamp equal to the current ticks.
C15_ZeroStampsTicks ==
  [][ \A b \in Slots :
        (refcnt[b] > 0 /\ refcnt'[b] = 0) => timestamp'[b] = ticks ]_vars

\* C15 is refuted from this state: bunpin holds the bucket lock and is about
\* to drop the last reference of a buffer whose timestamp is not the current
\* ticks; bio.c:218 decrements and writes no timestamp.
C15_UnpinToZero ==
  \E t \in Threads :
    /\ pc[t] = "bunpin_locked"
    /\ refcnt[arg[t]] = 1
    /\ timestamp[arg[t]] # ticks

\* the unused buffers on the list of bucket h
FreeIn(h) == {b \in Slots : refcnt[b] = 0 /\ \E k \in 1..Len(list[h]) : list[h][k] = b}

\* thread t ends the search of its bucket in this step without a hit
MissStep(t) ==
  /\ pc[t] = "bget_search" /\ pc'[t] # "bget_search"
  /\ FindCached(list[th[t]], tdev[t], tblockno[t]) = None

\* C16: a lookup that misses in a bucket that has an unused buffer recycles
\* the unused buffer of that bucket with the least timestamp, whatever the
\* timestamps are, and goes on to acquiresleep without taking bcache.lock
\* or another bucket lock.
C16_LocalAdmission ==
  [][ \A t \in Threads :
        (MissStep(t) /\ FreeIn(th[t]) # {}) =>
          /\ pc'[t] = "acquiresleep"
          /\ handle'[t] \in FreeIn(th[t])
          /\ \A c \in FreeIn(th[t]) : timestamp[handle'[t]] <= timestamp[c]
          /\ bcachelock' = bcachelock
          /\ \A i \in Buckets : lock'[i] # t ]_vars

\* C16 is refuted by this state: the lookup missed in its bucket, which has
\* an unused buffer with timestamp UintMax, and went on to the steal path.
C16_SentinelSteal ==
  \E t \in Threads, b \in Slots :
    /\ pc[t] = "steal_global"
    /\ b \in FreeIn(th[t])
    /\ timestamp[b] = UintMax

\* the positions of bget from the search to the write of the new identity
MissPcs == {"bget_search", "steal_global", "steal_acquire", "steal_scan",
            "evict"}

\* the positions of bget after a search that missed and found no local buffer
AfterMissPcs == MissPcs \ {"bget_search"}

\* two referenced buffers carry the same (dev, blockno)
Duplicate ==
  \E b1 \in Slots, b2 \in Slots :
    /\ b1 # b2 /\ refcnt[b1] > 0 /\ refcnt[b2] > 0
    /\ dev[b1] = dev[b2] /\ blockno[b1] = blockno[b2]

\* C17 as claimed: a second lookup of the same block can search the bucket
\* and miss while the first is between its miss and its admission, so that
\* both admit a buffer: the first does not hold the bucket lock there.
C17_SearchOverlapsAdmission ==
  \A t \in Threads : pc[t] \in AfterMissPcs => lock[th[t]] # t

\* C17 as amended: bget holds the lock of its bucket from its search to the
\* write of the new identity, so two lookups of the same block are never
\* both between search and admission, an admission never gives a buffer the
\* (dev, blockno) of another referenced buffer, and no state has two
\* referenced buffers with the same (dev, blockno).
C17_AdmissionSerialised ==
  [][ /\ \A t \in Threads : pc[t] \in MissPcs => lock[th[t]] = t
      /\ \A t \in Threads, u \in Threads :
           (t # u /\ tdev[t] = tdev[u] /\ tblockno[t] = tblockno[u])
             => ~(pc[t] \in MissPcs /\ pc[u] \in MissPcs)
      /\ \A t \in Threads, b \in Slots : Admits(t, b) =>
           \A b2 \in Slots \ {b} :
             refcnt[b2] > 0 => ~(dev[b2] = tdev[t] /\ blockno[b2] = tblockno[t])
      /\ ~Duplicate' ]_vars

\* C17 witness: two lookups of the same block, which is not cached, run at
\* the same time; one has missed and is in the steal path, the other spins
\* on the bucket lock the first still holds.
C17_Witness ==
  \E t \in Threads, u \in Threads :
    /\ t # u
    /\ tdev[t] = tdev[u] /\ tblockno[t] = tblockno[u]
    /\ pc[t] \in {"steal_acquire", "steal_scan", "evict"}
    /\ pc[u] = "bget_acquire" /\ SpinsOn(u) = t

\* thread t holds the lock of a bucket whose list contains buffer b
OwnerLocked(t, b) == \E p \in Places(b) : lock[p[1]] = t

\* thread t takes a step
Acts(t) == pc'[t] # pc[t]

\* a step changes the dev, blockno, refcnt or list membership of buffer b
Writes(b) ==
  \/ dev'[b] # dev[b] \/ blockno'[b] # blockno[b] \/ refcnt'[b] # refcnt[b]
  \/ {p[1] : p \in Places(b)}' # {p[1] : p \in Places(b)}

\* thread t reads b->blockno in this step to choose the bucket lock of
\* brelse (bio.c:192), bpin (bio.c:208) or bunpin (bio.c:216)
ReadsBlockno(t, b) ==
  \/ pc[t] = "brelse" /\ pc'[t] = "brelse_acquire" /\ arg[t] = b
  \/ pc[t] # "bpin_acquire" /\ pc'[t] = "bpin_acquire" /\ arg'[t] = b
  \/ pc[t] # "bunpin_acquire" /\ pc'[t] = "bunpin_acquire" /\ arg'[t] = b

\* every write of a buffer's dev, blockno, refcnt or list membership is a
\* step of a thread that holds the lock of the bucket whose list contains the
\* buffer; the searches of bget read a list under its lock; brelse, bpin and
\* bunpin hold the lock of the bucket that contains their buffer when they
\* change refcnt; every referenced buffer is on the list of
\* HASH(its blockno), in the initial state and after every step.
LockedAccess ==
  /\ \A b \in Slots : Writes(b) => \E t \in Threads : Acts(t) /\ OwnerLocked(t, b)
  /\ \A t \in Threads :
       /\ pc[t] = "bget_search" => lock[th[t]] = t
       /\ pc[t] = "steal_scan" => lock[ti[t]] = t /\ lock[th[t]] = t
       /\ pc[t] \in {"brelse_locked", "bpin_locked", "bunpin_locked"} =>
            /\ th[t] = HASH(blockno[arg[t]])
            /\ lock[th[t]] = t
            /\ OwnerLocked(t, arg[t])
  /\ \A b \in Slots : refcnt[b] > 0 => Cached(b)
  /\ \A b \in Slots : refcnt'[b] > 0 => Cached(b)'

\* C18 as claimed: every read and every write of a buffer's dev, blockno,
\* refcnt or list membership is done under the lock of the bucket whose list
\* contains the buffer, the read of b->blockno in brelse, bpin and bunpin
\* included, and every referenced buffer is on the list of HASH(its blockno).
C18_EveryAccessLocked ==
  [][ /\ LockedAccess
      /\ \A t \in Threads, b \in Slots :
           ReadsBlockno(t, b) => OwnerLocked(t, b) ]_vars

\* C18 as amended: the same for every write and for the searches of bget;
\* brelse, bpin and bunpin read b->blockno of a referenced buffer without a
\* bucket lock, and the bucket they then lock is the one that contains it.
C18_WritesLockedOwnerIsHash ==
  [][ /\ LockedAccess
      /\ \A t \in Threads, b \in Slots :
           ReadsBlockno(t, b) =>
             /\ refcnt[b] > 0
             /\ HeldBuckets(t) = {}
             /\ th'[t] = HASH(blockno[b])
             /\ Cached(b) ]_vars

\* C18 witness: brelse holds the lock of a bucket other than bucket 0 and is
\* about to drop the reference of a buffer that was stolen into that bucket.
C18_Witness ==
  \E t \in Threads :
    /\ pc[t] = "brelse_locked"
    /\ th[t] # 0
    /\ OwnerLocked(t, arg[t])
    /\ refcnt[arg[t]] > 0

\* the places of page p on the free lists: pairs of CPU and position
OnLists(p) ==
  {q \in Cpus \X (1..NPAGE) : q[2] <= Len(freelist[q[1]]) /\ freelist[q[1]][q[2]] = p}

\* the callers page p is allocated to: kalloc has taken it for t (r), t has
\* it, or t is freeing it (pa)
Holders(p) == {t \in Threads : kr[t] = p \/ p \in owned[t] \/ kpa[t] = p}

\* C19: every page is either on exactly one free list, once, or allocated to
\* exactly one caller, never both and never neither; the page kalloc returns
\* is on no free list and allocated to no other caller; the steal moves a
\* chain of pages from list i to the caller and its list and changes no
\* other list.
C19_PageConservation ==
  [][ /\ \A p \in Pages : Cardinality(OnLists(p)) + Cardinality(Holders(p)) = 1
      /\ \A p \in Pages : Cardinality(OnLists(p))' + Cardinality(Holders(p))' = 1
      /\ \A t \in Threads :
           (kpc[t] = "kalloc_release" /\ kpc'[t] = "kidle" /\ kr[t] # None) =>
             /\ OnLists(kr[t]) = {}
             /\ Holders(kr[t]) = {t}
             /\ kr[t] \in owned'[t]
      /\ \A t \in Threads :
           (kpc[t] = "kalloc_steal" /\ kr'[t] # None) =>
             /\ freelist[hartid[t]] = <<>>
             /\ freelist[ki[t]] =
                  <<kr'[t]>> \o freelist'[hartid[t]] \o freelist'[ki[t]]
             /\ \A c \in Cpus \ {hartid[t], ki[t]} : freelist'[c] = freelist[c] ]_vars

\* C19 witness: kalloc on a CPU with an empty list has stolen a chain of two
\* pages from another list that had more: one page is r, one is on its own
\* list now, and the other list keeps the rest.
C19_Witness ==
  \E t \in Threads :
    /\ kpc[t] = "kalloc_release"
    /\ kr[t] # None
    /\ ki[t] # hartid[t]
    /\ Len(freelist[hartid[t]]) = StealWalk
    /\ freelist[ki[t]] # <<>>

\* the lock of kmem thread t is spinning on: its holder, or None when t is
\* not at an acquire or the lock is free
KSpinsOn(t) ==
  IF kpc[t] \in {"kalloc_acquire", "kfree_acquire"} THEN kmemlock[hartid[t]]
  ELSE IF kpc[t] = "kalloc_steal_acquire" THEN kmemlock[ki[t]]
  ELSE None

\* C20: no deadlock among callers of kalloc and kfree: there is never a set
\* of threads each spinning on a kmem lock that another thread of the set
\* holds, so every kalloc call can go on to its return.
C20_KallocNoDeadlock ==
  ~ \E S \in SUBSET Threads : S # {} /\ \A t \in S : KSpinsOn(t) \in S

\* C20 is refuted by this state: two kalloc calls on CPUs with empty lists
\* each hold the lock of their own list and spin on the lock of the other's.
C20_StealDeadlock ==
  \E t \in Threads, u \in Threads :
    /\ t # u
    /\ kpc[t] = "kalloc_steal_acquire" /\ kmemlock[hartid[t]] = t
    /\ kpc[u] = "kalloc_steal_acquire" /\ kmemlock[hartid[u]] = u
    /\ ki[t] = hartid[u] /\ ki[u] = hartid[t]

=============================================================================
